---- MODULE Spec2Model ----
(***************************************************************************)
(* A model of mdbook-bookimport (src/src/lib.rs, src/src/main.rs).         *)
(*                                                                         *)
(* Text is a sequence of tokens.  A token is one character, except that    *)
(* the multi-character literals of the two regular expressions ("{{",      *)
(* "}}", "bookimport", "@book", "start", "end") and the file names are     *)
(* atomic.  The regular expressions are evaluated with the leftmost-first  *)
(* semantics of the regex crate.                                           *)
(***************************************************************************)
EXTENDS Integers, Sequences, FiniteSets

VARIABLES
    pc,           \* where handle_preprocessing / run / process_chapter stands
    book,         \* the Book being rewritten: chapter id -> Chapter
    book0,        \* the Book as parsed from stdin (never changes)
    sections,     \* book.sections: the top-level chapters, in order
    stack,        \* chapters still to be visited by the recursion, in visiting order
    cur,          \* the chapter process_chapter is working on (0: none)
    chapter_dir,  \* process_chapter's local chapter_dir
    content,      \* process_chapter's local content
    simports,     \* process_chapter's local simports
    k,            \* simports[k] is the next one of simports.iter().rev()
    visited,      \* the chapters whose content process_chapter has assigned, in order
    reads,        \* the std::fs::read calls so far: the chapter and the path
    output,       \* what was written to stdout
    arg,          \* argument of the function applied by SpecScan / SpecExtract
    ret           \* its result

vars == <<pc, book, book0, sections, stack, cur, chapter_dir, content, simports,
          k, visited, reads, output, arg, ret>>

progVars == <<pc, book, book0, sections, stack, cur, chapter_dir, content,
              simports, k, visited, reads, output>>

---------------------------------------------------------------------------
(* Bounds *)

\* Spec: number of chapters plus number of body segments of a book.
MaxSize == 4
\* SpecScan: number of segments of a chapter body.
MaxScanSegs == 4
\* SpecExtract: number of lines of a referenced file.
MaxLines == 4

---------------------------------------------------------------------------
(* Character classes *)

\* \s
Ws == {" ", "\n", "\r"}

\* [a-zA-Z0-9]: the alphanumeric tokens
Word == {"a", "b", "m", "t", "u", "x", "p", "q", "bookimport", "start", "end"}

\* (?P<file>[a-zA-Z0-9\s_.\-/\\]+)
FileClass == Word \cup Ws \cup {"_", ".", "-", "/", "\\"}

\* (?P<tag>[a-zA-Z0-9_.\-]+)
TagClass == Word \cup {"_", ".", "-"}

\* [\n\r]
NlClass == {"\n", "\r"}

Min(S) == CHOOSE m \in S : \A n \in S : m <= n
Max(S) == CHOOSE m \in S : \A n \in S : m >= n

\* The first position >= p of s whose token is not in class (Len(s)+1 if none):
\* where a greedy class* starting at p stops.
SkipClass(s, p, class) ==
    Min({i \in p..(Len(s) + 1) : i = Len(s) + 1 \/ s[i] \notin class})

\* s has the tokens of lit at position p.
StartsWithAt(s, p, lit) ==
    /\ p >= 1
    /\ p + Len(lit) - 1 <= Len(s)
    /\ \A i \in 1..Len(lit) : s[p + i - 1] = lit[i]

\* The sequences of at most n elements of segs.
SegSeqs(segs, n) == UNION {[1..m -> segs] : m \in 0..n}

\* No function applied (arg), no result yet (ret).
Idle == [fn |-> "none"]

RECURSIVE Flatten(_)
Flatten(ss) == IF ss = <<>> THEN <<>> ELSE Head(ss) \o Flatten(Tail(ss))

---------------------------------------------------------------------------
(* SUPERIMPORT_REGEX *)

\* static _ESCAPE_CHAR
ESCAPE_CHAR == "/"

\* /\{\{\#.*\}\} at position p: the position of its closing "}}", 0 if it does
\* not match.  .* is greedy and does not match "\n".
EscapedEnd(s, p) ==
    IF /\ p + 3 <= Len(s)
       /\ s[p] = ESCAPE_CHAR /\ s[p + 1] = "{{" /\ s[p + 2] = "#"
    THEN LET ends == {j \in (p + 3)..Len(s) :
                        /\ s[j] = "}}"
                        /\ \A i \in (p + 3)..(j - 1) : s[i] # "\n"}
         IN  IF ends = {} THEN 0 ELSE Max(ends)
    ELSE 0

NoMatch == [last |-> 0, fileStart |-> 0, fileEnd |-> 0, tagStart |-> 0, tagEnd |-> 0]

\* \{\{\s*\#bookimport\s+(?P<file>...+)@(?P<tag>...+)\s*\}\} at position p:
\* the position of its closing "}}" and the two captures, NoMatch if it does
\* not match.
LiveMatch(s, p) ==
    IF p > Len(s) \/ s[p] # "{{" THEN NoMatch
    ELSE
    LET h  == SkipClass(s, p + 1, Ws)                \* \s*
        r0 == h + 2                                  \* after "#" "bookimport"
        at == SkipClass(s, r0, FileClass)            \* \s+ file+ is a run of FileClass
        \* \s+ is greedy but leaves file one token
        fs == Min({SkipClass(s, r0, Ws), at - 1})
        te == SkipClass(s, at + 1, TagClass)         \* tag+ ; te is one past it
        cl == SkipClass(s, te, Ws)                   \* \s*
    IN  IF /\ StartsWithAt(s, h, <<"#", "bookimport">>)
           /\ r0 <= Len(s) /\ s[r0] \in Ws
           /\ at - r0 >= 2
           /\ at <= Len(s) /\ s[at] = "@"
           /\ te > at + 1
           /\ cl <= Len(s) /\ s[cl] = "}}"
        THEN [last |-> cl, fileStart |-> fs, fileEnd |-> at - 1,
              tagStart |-> at + 1, tagEnd |-> te - 1]
        ELSE NoMatch

\* The match of the whole regex at position p: the escaped alternative is
\* tried first.  start is the first position of the match and end the one
\* after its last (Match::start, Match::end).
MatchAt(s, p) ==
    IF EscapedEnd(s, p) # 0
    THEN [start |-> p, end |-> EscapedEnd(s, p) + 1, file |-> <<>>, tag |-> <<>>]
    ELSE LET m == LiveMatch(s, p)
         IN  IF m.last # 0
             THEN [start |-> p, end |-> m.last + 1,
                   file |-> SubSeq(s, m.fileStart, m.fileEnd),
                   tag |-> SubSeq(s, m.tagStart, m.tagEnd)]
             ELSE [start |-> 0, end |-> 0, file |-> <<>>, tag |-> <<>>]

\* Regex::captures_iter: the successive non-overlapping matches from position p.
RECURSIVE CapturesIter(_, _)
CapturesIter(s, p) ==
    LET starts == {i \in p..Len(s) : MatchAt(s, i).start # 0}
    IN  IF starts = {} THEN <<>>
        ELSE LET m == MatchAt(s, Min(starts))
             IN  <<m>> \o CapturesIter(s, m.end)

FullText(s, m) == SubSeq(s, m.start, m.end - 1)

\* full_simport_text.starts_with(r"/")
IsEscaped(s, m) == FullText(s, m)[1] = ESCAPE_CHAR

\* BookImport::find_unescaped_bookimports
RECURSIVE KeepUnescaped(_, _)
KeepUnescaped(s, ms) ==
    IF ms = <<>> THEN <<>>
    ELSE LET m == Head(ms)
         IN  (IF IsEscaped(s, m) THEN <<>>
              ELSE << [file |-> m.file,
                       full_simport_text |-> FullText(s, m),
                       tag |-> m.tag,
                       start |-> m.start,
                       end |-> m.end] >>)
             \o KeepUnescaped(s, Tail(ms))

find_unescaped_bookimports(s) == KeepUnescaped(s, CapturesIter(s, 1))

---------------------------------------------------------------------------
(* Directive texts *)

\* {{#bookimport <file>@<tag>}}
Live(file, tag) == <<"{{", "#", "bookimport", " ">> \o file \o <<"@">> \o tag \o <<"}}">>

\* {{ #bookimport <file>@<tag> }}
LiveWs(file, tag) ==
    <<"{{", " ", "#", "bookimport", " ">> \o file \o <<"@">> \o tag \o <<" ", "}}">>

---------------------------------------------------------------------------
(* start_regex of read_content_between_tags *)

\* @book \s+ <kw> \s+ <tag> at position p: the position after it, 0 if it
\* does not match ({tag} is regex::escape(self.tag), a literal).
MarkerEnd(s, p, kw, tag) ==
    IF p > Len(s) \/ s[p] # "@book" THEN 0
    ELSE LET a == SkipClass(s, p + 1, Ws)
             b == SkipClass(s, a + 1, Ws)
         IN  IF /\ a > p + 1 /\ a <= Len(s) /\ s[a] = kw
                /\ b > a + 1 /\ StartsWithAt(s, b, tag)
             THEN b + Len(tag)
             ELSE 0

\* The positions c where content_to_import may start in a match that starts
\* at p:   start-marker  .*?  [\n\r]  ^c
ContentStarts(s, p, tag) ==
    LET q == MarkerEnd(s, p, "start", tag)
    IN  IF q = 0 THEN {}
        ELSE {c \in (q + 1)..(Len(s) + 1) :
                /\ s[c - 1] \in NlClass
                /\ \A i \in q..(c - 2) : s[i] # "\n"}

\* The positions e >= c where content_to_import may stop (e is one past it):
\*   ^e [\n\r]  .*?  end-marker
ContentEnds(s, c, tag) ==
    {e \in c..Len(s) :
        /\ s[e] \in NlClass
        /\ \E r \in (e + 1)..Len(s) :
              /\ \A i \in (e + 1)..(r - 1) : s[i] # "\n"
              /\ MarkerEnd(s, r, "end", tag) # 0}

NoCaptures == [matched |-> FALSE, start |-> 0, cstart |-> 0, cend |-> 0, estart |-> 0]

\* start_regex.captures(&content): the leftmost match; in it .*? takes the
\* fewest tokens that let the rest match and (.|\n|\r)* the most.
Captures(s, tag) ==
    LET ok(p) == \E c \in ContentStarts(s, p, tag) : ContentEnds(s, c, tag) # {}
        ps    == {p \in 1..Len(s) : ok(p)}
    IN  IF ps = {} THEN NoCaptures
        ELSE LET p == Min(ps)
                 c == Min({d \in ContentStarts(s, p, tag) : ContentEnds(s, d, tag) # {}})
                 e == Max(ContentEnds(s, c, tag))
                 \* the end marker of the match: the nearest one on the line after e
                 r == Min({i \in (e + 1)..Len(s) : MarkerEnd(s, i, "end", tag) # 0})
             IN  [matched |-> TRUE, start |-> p, cstart |-> c, cend |-> e, estart |-> r]

\* What std::fs::read gives for a path.
NoFile == [exists |-> FALSE, utf8 |-> FALSE, text |-> <<>>]
BadFile == [exists |-> TRUE, utf8 |-> FALSE, text |-> <<>>]
TextFile(text) == [exists |-> TRUE, utf8 |-> TRUE, text |-> text]

\* Ok(content_between_tags), with where the match lies in the file
Ok(text, c) == [kind |-> "Ok", text |-> text, at |-> "", start |-> c.start,
                estart |-> c.estart]
\* a panic!, with the call that raised it
Panic(at) == [kind |-> "Panic", text |-> <<>>, at |-> at, start |-> 0, estart |-> 0]

\* An extraction that substitutes the empty text where it cannot resolve.
ContentBetweenTags_Lenient(file, tag) ==
    IF file.exists /\ file.utf8 /\ Captures(file.text, tag).matched
    THEN LET c == Captures(file.text, tag)
         IN  Ok(SubSeq(file.text, c.cstart, c.cend - 1), c)
    ELSE Ok(<<>>, NoCaptures)

\* The body of read_content_between_tags once the path is resolved: the three
\* unwrap()s, then Ok(content_between_tags).
ContentBetweenTags(file, tag) ==
    IF ~file.exists THEN Panic("fs::read")
    ELSE IF ~file.utf8 THEN Panic("String::from_utf8")
    ELSE LET c == Captures(file.text, tag)
         IN  IF ~c.matched THEN Panic("captures")
             ELSE Ok(SubSeq(file.text, c.cstart, c.cend - 1), c)

---------------------------------------------------------------------------
(* Referenced files as lines *)

StartLine(tag) == <<"@book", " ", "start", " ">> \o tag
EndLine(tag) == <<"@book", " ", "end", " ">> \o tag

RECURSIVE JoinLines(_, _)
JoinLines(lines, sep) ==
    IF lines = <<>> THEN <<>>
    ELSE IF Len(lines) = 1 THEN lines[1]
    ELSE lines[1] \o sep \o JoinLines(Tail(lines), sep)

---------------------------------------------------------------------------
(* The file system and the book *)

\* ctx.root.join(&ctx.config.book.src)
BookSrcDir == <<"src">>

Dirs == {"d1", "d2"}

\* Path::join
PathJoin(base, path) == IF path # <<>> /\ path[1] = "/" THEN path ELSE base \o path

\* Path::parent
Parent(path) == SubSeq(path, 1, Len(path) - 1)

\* std::fs::read of the files under the book's source directory.
FS(path) ==
    CASE path = <<"src", "d1", "a">> ->
            TextFile(JoinLines(<<StartLine(<<"t">>), <<"p">>, EndLine(<<"t">>)>>, <<"\n">>))
      [] path = <<"src", "d2", "a">> ->
            TextFile(JoinLines(<<StartLine(<<"t">>), <<"q">>, EndLine(<<"t">>)>>, <<"\n">>))
      [] path = <<"src", "d1", "b">> ->
            TextFile(JoinLines(<<StartLine(<<"t">>), Live(<<"a">>, <<"t">>),
                                 EndLine(<<"t">>)>>, <<"\n">>))
      [] path = <<"src", "d2", "b">> -> BadFile
      [] path = <<"src", "d2", "m">> ->
            TextFile(JoinLines(<<StartLine(<<"t">>), <<"p">>>>, <<"\n">>))
      [] OTHER -> NoFile

\* The segments chapter bodies are made of.
BodySegs ==
    { <<"x", "\n">>,
      Live(<<"a">>, <<"t">>), Live(<<"b">>, <<"t">>), Live(<<"m">>, <<"t">>),
      <<ESCAPE_CHAR>> \o Live(<<"a">>, <<"t">>),
      <<ESCAPE_CHAR>> \o LiveWs(<<"m">>, <<"t">>) }

\* The forests of n chapters numbered in pre-order: par[i] is the parent of
\* chapter i, 0 for a section of the book.
Forests(n) ==
    {par \in [1..n -> 0..(n - 1)] :
        \A i \in 1..n :
            /\ par[i] < i
            /\ \A j \in (par[i] + 1)..(i - 1) : par[j] >= par[i]}

RECURSIVE Ascending(_)
Ascending(S) == IF S = {} THEN <<>> ELSE <<Min(S)>> \o Ascending(S \ {Min(S)})

ChildrenOf(par, i) == Ascending({j \in DOMAIN par : par[j] = i})

RECURSIVE TotalLen(_, _)
TotalLen(f, n) == IF n = 0 THEN 0 ELSE Len(f[n]) + TotalLen(f, n - 1)

\* The bodies of n items: n items and their segments number at most MaxSize.
Bodies(n) ==
    {segs \in [1..n -> SegSeqs(BodySegs, MaxSize - n)] :
        TotalLen(segs, n) <= MaxSize - n}

\* BookItem::Chapter(Chapter::new(name, content, path, sub_items))
Chapter(name, body, path, sub_items) ==
    [kind |-> "Chapter", name |-> name, content |-> body, path |-> path,
     sub_items |-> sub_items]

\* BookItem::Separator
Separator ==
    [kind |-> "Separator", name |-> 0, content |-> <<>>, path |-> <<>>,
     sub_items |-> <<>>]

\* An item without a directory is a separator: no children and no body.
SeparatorsAreLeaves(par, dirs, segs) ==
    \A i \in DOMAIN par :
        dirs[i] = "-" => ChildrenOf(par, i) = <<>> /\ segs[i] = <<>>

---------------------------------------------------------------------------
(* process_chapter *)

\* A walker that hands the directory it last computed down the recursion
\* instead of deriving it from the chapter's own path.
ChapterDir_Inherited(path) ==
    IF chapter_dir # <<>> THEN chapter_dir ELSE PathJoin(BookSrcDir, Parent(path))

\* chapter.path.parent().map(|dir| book_src_dir.join(dir))
ChapterDir(path) == PathJoin(BookSrcDir, Parent(path))

\* str::replace: every non-overlapping occurrence of pat in s, from the left.
RECURSIVE Replace(_, _, _)
Replace(s, pat, to) ==
    IF s = <<>> THEN <<>>
    ELSE IF StartsWithAt(s, 1, pat)
         THEN to \o Replace(SubSeq(s, Len(pat) + 1, Len(s)), pat, to)
         ELSE <<Head(s)>> \o Replace(Tail(s), pat, to)

\* simport.read_content_between_tags(&chapter_dir)
read_content_between_tags(simport, dir) ==
    ContentBetweenTags(FS(PathJoin(dir, simport.file)), simport.tag)

---------------------------------------------------------------------------
(* Spec: handle_preprocessing *)

Init ==
    /\ \E n \in 1..MaxSize :
       \E segs \in Bodies(n) :
       \E par \in Forests(n) :
       \E dirs \in [1..n -> Dirs \cup {"-"}] :
          \* an item without a directory is a separator: it has no children
          \* and no body
          /\ SeparatorsAreLeaves(par, dirs, segs)
          /\ book0 = [i \in 1..n |->
                        IF dirs[i] = "-" THEN Separator
                        ELSE Chapter(i, Flatten(segs[i]), <<dirs[i], "README.md">>,
                                     ChildrenOf(par, i))]
          /\ sections = ChildrenOf(par, 0)
    /\ book = book0
    /\ pc = "start"
    /\ stack = <<>> /\ cur = 0 /\ chapter_dir = <<>> /\ content = <<>>
    /\ simports = <<>> /\ k = 0
    /\ visited = <<>> /\ reads = <<>> /\ output = <<>>
    /\ arg = Idle /\ ret = Idle

\* Bookimport::run starts: for section in book.sections.iter_mut()
Run ==
    /\ pc = "start"
    /\ pc' = "walk"
    /\ stack' = sections
    /\ UNCHANGED <<book, book0, sections, cur, chapter_dir, content, simports, k,
                   visited, reads, output, arg, ret>>

\* process_chapter is entered for the next chapter: chapter_dir, the clone of
\* the content and the scan.
EnterChapter ==
    /\ pc = "walk" /\ stack # <<>>
    /\ book[Head(stack)].kind = "Chapter"
    /\ cur' = Head(stack)
    /\ stack' = Tail(stack)
    /\ chapter_dir' = ChapterDir(book[cur'].path)
    /\ content' = book[cur'].content
    /\ simports' = find_unescaped_bookimports(book[cur'].content)
    /\ k' = Len(simports')
    /\ pc' = "replace"
    /\ UNCHANGED <<book, book0, sections, visited, reads, output, arg, ret>>

\* process_chapter is called for an item that is no chapter: Ok(()) at once.
SkipSeparator ==
    /\ pc = "walk" /\ stack # <<>>
    /\ book[Head(stack)].kind # "Chapter"
    /\ stack' = Tail(stack)
    /\ UNCHANGED <<pc, book, book0, sections, cur, chapter_dir, content, simports,
                   k, visited, reads, output, arg, ret>>

\* One turn of  for simport in simports.iter().rev()
ReplaceStep ==
    /\ pc = "replace" /\ k > 0
    /\ LET simport == simports[k]
           got     == read_content_between_tags(simport, chapter_dir)
       IN  /\ reads' = Append(reads, [chapter |-> cur,
                                       path |-> PathJoin(chapter_dir, simport.file)])
           /\ \/ /\ got.kind = "Ok"
                 /\ content' = Replace(content, simport.full_simport_text, got.text)
                 /\ k' = k - 1
                 /\ pc' = pc
              \/ /\ got.kind # "Ok"
                 /\ pc' = "panicked"
                 /\ UNCHANGED <<content, k>>
    /\ UNCHANGED <<book, book0, sections, stack, cur, chapter_dir, simports,
                   visited, output, arg, ret>>

\* chapter.content = content;  then the sub_items are processed, in order,
\* before what is left of the enclosing loops.
LeaveChapter ==
    /\ pc = "replace" /\ k = 0
    /\ book' = [book EXCEPT ![cur].content = content]
    /\ visited' = Append(visited, cur)
    /\ stack' = book[cur].sub_items \o stack
    /\ pc' = "walk"
    /\ UNCHANGED <<book0, sections, cur, chapter_dir, content, simports, k,
                   reads, output, arg, ret>>

\* Bookimport::run returns Ok(book)
Return ==
    /\ pc = "walk" /\ stack = <<>>
    /\ pc' = "returned"
    /\ UNCHANGED <<book, book0, sections, stack, cur, chapter_dir, content,
                   simports, k, visited, reads, output, arg, ret>>

\* serde_json::to_writer(stdout, &book_after_bookimport)
Emit ==
    /\ pc = "returned"
    /\ output' = <<book>>
    /\ pc' = "emitted"
    /\ UNCHANGED <<book, book0, sections, stack, cur, chapter_dir, content,
                   simports, k, visited, reads, arg, ret>>

Next == Run \/ EnterChapter \/ SkipSeparator \/ ReplaceStep \/ LeaveChapter \/ Return \/ Emit

Spec == Init /\ [][Next]_vars

---------------------------------------------------------------------------
(* SpecScan: find_unescaped_bookimports applied to a chapter body *)

ScanSegs ==
    { Live(<<"a">>, <<"t">>), LiveWs(<<"a">>, <<"t">>), <<"{{", "#", "x", "}}">>,
      <<ESCAPE_CHAR>>, <<"\n">>, <<"x">> }

InitScan ==
    /\ \E ss \in SegSeqs(ScanSegs, MaxScanSegs) :
           arg = [fn |-> "find_unescaped_bookimports", content |-> Flatten(ss)]
    /\ ret = Idle
    /\ pc = "idle" /\ book = <<>> /\ book0 = <<>> /\ sections = <<>> /\ stack = <<>>
    /\ cur = 0 /\ chapter_dir = <<>> /\ content = <<>> /\ simports = <<>> /\ k = 0
    /\ visited = <<>> /\ reads = <<>> /\ output = <<>>

Scan ==
    /\ arg.fn = "find_unescaped_bookimports"
    /\ ret = Idle
    /\ ret' = [fn |-> "find_unescaped_bookimports",
               matches |-> CapturesIter(arg.content, 1),
               simports |-> find_unescaped_bookimports(arg.content)]
    /\ UNCHANGED <<arg, progVars>>

NextScan == Scan

SpecScan == InitScan /\ [][NextScan]_vars

---------------------------------------------------------------------------
(* SpecExtract: read_content_between_tags applied to a referenced file *)

ExtractLines ==
    { StartLine(<<"t">>), EndLine(<<"t">>), StartLine(<<"t", "u">>),
      EndLine(<<"t", "u">>), <<"x">>, <<>> }

Separators == { <<"\n">>, <<"\r", "\n">> }

InitExtract ==
    /\ \E ls \in SegSeqs(ExtractLines, MaxLines) : \E sep \in Separators :
           arg = [fn |-> "read_content_between_tags", lines |-> ls, sep |-> sep,
                  file |-> TextFile(JoinLines(ls, sep)), tag |-> <<"t">>]
    /\ ret = Idle
    /\ pc = "idle" /\ book = <<>> /\ book0 = <<>> /\ sections = <<>> /\ stack = <<>>
    /\ cur = 0 /\ chapter_dir = <<>> /\ content = <<>> /\ simports = <<>> /\ k = 0
    /\ visited = <<>> /\ reads = <<>> /\ output = <<>>

Extract ==
    /\ arg.fn = "read_content_between_tags"
    /\ ret = Idle
    /\ ret' = ContentBetweenTags(arg.file, arg.tag)
    /\ UNCHANGED <<arg, progVars>>

NextExtract == Extract

SpecExtract == InitExtract /\ [][NextExtract]_vars

---------------------------------------------------------------------------
(* Claims about the scanner (SpecScan) *)

\* The well-formed directive blocks of s: the positions where the directive
\* grammar matches, with the position after their closing braces.
DirectiveBlocks(s) ==
    {<<i, LiveMatch(s, i).last + 1>> : i \in {n \in 1..Len(s) : LiveMatch(s, n).last # 0}}

PrecededByEscape(s, i) == i > 1 /\ s[i - 1] = ESCAPE_CHAR

\* The first "}}" after the opening "{{" of a match.
FirstClose(s, m) ==
    LET open == Min({i \in m.start..Len(s) : s[i] = "{{"})
    IN  Min({j \in (open + 1)..Len(s) : s[j] = "}}"})

\* C10: every scanner match ends at the first "}}" after its opening "{{",
\* is either escaped or live, and the directives find_unescaped_bookimports
\* returns are exactly the well-formed directive blocks not immediately
\* preceded by the escape marker.
C10_MatchesAreSingleBlocks ==
    ret # Idle /\ arg.fn = "find_unescaped_bookimports" =>
        /\ \A n \in 1..Len(ret.matches) :
              /\ ret.matches[n].end - 1 = FirstClose(arg.content, ret.matches[n])
              /\ IsEscaped(arg.content, ret.matches[n])
                    # (LiveMatch(arg.content, ret.matches[n].start).last # 0)
        /\ {<<ret.simports[n].start, ret.simports[n].end>> : n \in 1..Len(ret.simports)}
             = {b \in DirectiveBlocks(arg.content) : ~PrecededByEscape(arg.content, b[1])}

---------------------------------------------------------------------------
(* Claims about extraction (SpecExtract) *)

\* line is a marker line for exactly this tag: the tag token ends where the
\* tag ends.
IsMarkerLine(line, kw, tag) ==
    \E p \in 1..Len(line) :
        LET q == MarkerEnd(line, p, kw, tag)
        IN  q # 0 /\ (q > Len(line) \/ line[q] \notin TagClass)

MarkerLines(lines, kw, tag) == {n \in 1..Len(lines) : IsMarkerLine(lines[n], kw, tag)}

\* line contains the marker text "@book <kw> <tag>".
HasMarker(line, kw, tag) == \E p \in 1..Len(line) : MarkerEnd(line, p, kw, tag) # 0

LinesWithMarker(lines, kw, tag) == {n \in 1..Len(lines) : HasMarker(lines[n], kw, tag)}

\* The line of the file that holds position p.
LineOf(s, p) == 1 + Cardinality({i \in 1..(p - 1) : s[i] = "\n"})

Extracted == ret # Idle /\ arg.fn = "read_content_between_tags"

\* C4: with the first start marker on line i and the first end marker on
\* line j > i, extraction returns lines i+1..j-1 joined by the separator.
C4_RoundTrip ==
    LET ss == LinesWithMarker(arg.lines, "start", arg.tag)
        es == LinesWithMarker(arg.lines, "end", arg.tag)
    IN  Extracted /\ ss # {} /\ es # {} /\ Min(ss) < Min(es) =>
            /\ ret.kind = "Ok"
            /\ ret.text = JoinLines(SubSeq(arg.lines, Min(ss) + 1, Min(es) - 1), arg.sep)

\* C5: the lines extraction takes as the start and end marker of tag T are
\* marker lines of exactly T, never of a tag that T is a prefix of.
C5_ExactTag ==
    Extracted /\ ret.kind = "Ok" =>
        /\ LineOf(arg.file.text, ret.start) \in MarkerLines(arg.lines, "start", arg.tag)
        /\ LineOf(arg.file.text, ret.estart) \in MarkerLines(arg.lines, "end", arg.tag)

\* C6: a file with the start marker and no end marker makes extraction
\* return the error MissingEndTag.
C6_MissingEndTag ==
    Extracted /\ LinesWithMarker(arg.lines, "start", arg.tag) # {}
              /\ LinesWithMarker(arg.lines, "end", arg.tag) = {} =>
        ret.kind = "Err" /\ ret.at = "MissingEndTag"

\* C9: extraction succeeds only if the first start marker and the first end
\* marker both exist and the start marker comes first.
C9_SucceedsOnlyInOrder ==
    LET ss == LinesWithMarker(arg.lines, "start", arg.tag)
        es == LinesWithMarker(arg.lines, "end", arg.tag)
    IN  Extracted /\ ret.kind = "Ok" => ss # {} /\ es # {} /\ Min(ss) < Min(es)

---------------------------------------------------------------------------
(* Claims about the run (Spec) *)

Items == DOMAIN book0

Chapters == {i \in Items : book0[i].kind = "Chapter"}

Visited == {visited[n] : n \in 1..Len(visited)}

\* The directory the imports of chapter i are to be resolved against: the
\* parent directory of its own path, under the book's source directory.
OwnDir(i) == <<"src", book0[i].path[1]>>

\* The text a directive d of a chapter with directory dir stands for.
Resolved(d, dir) == ContentBetweenTags(FS(dir \o d.file), d.tag)

\* body with the span [start, end) of each of the first n directives of ds
\* replaced by the directive's text, and nothing else changed.
RECURSIVE ExactSpan(_, _, _, _)
ExactSpan(body, ds, n, dir) ==
    IF n = 0 THEN body
    ELSE ExactSpan(SubSeq(body, 1, ds[n].start - 1) \o Resolved(ds[n], dir).text
                     \o SubSeq(body, ds[n].end, Len(body)),
                   ds, n - 1, dir)

\* C1: after process_chapter the body is the original body with the span of
\* each non-escaped directive replaced by its extracted text, every other
\* byte unchanged and the inserted text not rewritten.
C1_ExactSpanSubstitution ==
    \A i \in Visited :
        LET ds == find_unescaped_bookimports(book0[i].content)
        IN  book[i].content = ExactSpan(book0[i].content, ds, Len(ds), OwnDir(i))

\* The tokens a..b of s, "<none>" where s has none.
Slice(s, a, b) ==
    [n \in 1..(b - a + 1) |-> IF a + n - 1 \in DOMAIN s THEN s[a + n - 1] ELSE "<none>"]

\* How far the text at position p of the original body has moved in the
\* rewritten body: the growth of the directives replaced before it.
RECURSIVE Shift(_, _, _, _)
Shift(ds, n, p, dir) ==
    IF n = 0 THEN 0
    ELSE Shift(ds, n - 1, p, dir)
         + (IF ds[n].start < p
            THEN Len(Resolved(ds[n], dir).text) - (ds[n].end - ds[n].start)
            ELSE 0)

\* C2: every escaped directive occurrence of a body is in the output body
\* unchanged, escape marker included.
C2_EscapedUntouched ==
    \A i \in Visited :
        LET body == book0[i].content
            ms   == CapturesIter(body, 1)
            ds   == find_unescaped_bookimports(body)
        IN  \A n \in 1..Len(ms) :
                IsEscaped(body, ms[n]) =>
                    LET sh == Shift(ds, Len(ds), ms[n].start, OwnDir(i))
                    IN  Slice(book[i].content, ms[n].start + sh, ms[n].end - 1 + sh)
                          = FullText(body, ms[n])

\* Every directive of the body is escaped (and there is one).
OnlyEscaped(body) ==
    /\ DirectiveBlocks(body) # {}
    /\ \A b \in DirectiveBlocks(body) : PrecededByEscape(body, b[1])

\* C3: a chapter whose only directives are escaped yields no directive, reads
\* no file and is processed without failure.
C3_EscapedNeverRead ==
    /\ \A n \in 1..Len(reads) : ~OnlyEscaped(book0[reads[n].chapter].content)
    /\ cur # 0 /\ OnlyEscaped(book0[cur].content) =>
           simports = <<>> /\ pc # "panicked"

\* body as process_chapter rewrites it for directory dir.
RECURSIVE Rewritten(_, _, _, _)
Rewritten(body, ds, n, dir) ==
    IF n = 0 THEN body
    ELSE LET new == Replace(body, ds[n].full_simport_text, Resolved(ds[n], dir).text)
         IN  Rewritten(new, ds, n - 1, dir)

IsParent(a, i) == \E n \in 1..Len(book0[a].sub_items) : book0[a].sub_items[n] = i

AllResolve(i) ==
    LET ds == find_unescaped_bookimports(book0[i].content)
    IN  \A n \in 1..Len(ds) :
            LET f == FS(OwnDir(i) \o ds[n].file)
            IN  f.exists /\ f.utf8 /\ Captures(f.text, ds[n].tag).matched

\* C8: a directive that fails to resolve stops the run there and nothing is
\* emitted; a book is emitted only once every chapter has been processed
\* successfully.
C8_AllOrNothing ==
    /\ output # <<>> =>
          /\ pc = "emitted"
          /\ output = <<book>>
          /\ Visited = Chapters
          /\ \A i \in Chapters : AllResolve(i)
    /\ (\E i \in (Visited \cup {cur}) \ {0} : ~AllResolve(i)) =>
          /\ output = <<>>
          /\ pc \in {"replace", "panicked"}
          /\ ~AllResolve(cur)
    /\ pc = "panicked" =>
          /\ output = <<>>
          /\ ~ENABLED Next
          /\ cur \notin Visited /\ book[cur] = book0[cur]

\* A run that failed after it had rewritten an earlier chapter.
C8_Witness ==
    /\ pc = "panicked"
    /\ \E i \in Visited : book[i].content # book0[i].content

====
